---- MODULE Spec2Model ----
(***************************************************************************)
(* SinglyLinkedList of src/linked_list.py as a state machine.              *)
(*                                                                         *)
(* The heap of _Node objects is a pair of functions (value, next) over a   *)
(* finite set of node identities; head and tail are node identities or     *)
(* None; len is the _len counter.  Every public method is one action that  *)
(* runs the whole method body, loops included (the loops are RECURSIVE     *)
(* operators that walk the links exactly as the code does).                *)
(***************************************************************************)
EXTENDS Integers, Sequences, FiniteSets, TLC

\* ---------------------------------------------------------------- bounds
MaxLen == 3                     \* most nodes a list holds in the model
MaxVal == 2                     \* element values are 1..MaxVal
MaxKey == 4                     \* binary_search arguments are -MaxKey..MaxKey

Values  == 1..MaxVal
Nodes   == 1..MaxLen            \* node identities
Indexes == (0 - 1)..(MaxLen + 1)  \* index arguments, out-of-range ones included
Fuel    == MaxLen + 1           \* steps after which a link walk must be cyclic
Preds   == SUBSET Values        \* a predicate is the set of values it accepts
Keys    == (0 - MaxKey)..MaxKey \* target, low and high of binary_search

\* ------------------------------------------------------------- constants
None == 0                       \* Python None: no node / no value

VARIABLES head, tail, len, next, value, last, pre, built, disc, conc, bs

vars == <<head, tail, len, next, value, last, pre, built, disc, conc, bs>>

\* --------------------------------------------------------------- results
\* A call either returns a value (possibly None) or raises an exception.
Ok(v)        == [raised |-> FALSE, exc |-> "", msg |-> "", isNone |-> FALSE, val |-> v]
OkNone       == [raised |-> FALSE, exc |-> "", msg |-> "", isNone |-> TRUE,  val |-> None]
Raise(e, m)  == [raised |-> TRUE,  exc |-> e,  msg |-> m,  isNone |-> FALSE, val |-> None]

\* ------------------------------------------------------------- the heap
\* The list object: the three attributes set by __init__ plus the nodes.
Cur == [head |-> head, tail |-> tail, len |-> len, next |-> next, value |-> value]

EmptyList == [head |-> None, tail |-> None, len |-> 0,
              next |-> [n \in Nodes |-> None], value |-> [n \in Nodes |-> None]]

\* Nodes met by following next links from n, at most k of them.
RECURSIVE Chain(_, _, _)
Chain(nx, n, k) ==
    IF n = None \/ k = 0 THEN <<>>
    ELSE <<n>> \o Chain(nx, nx[n], k - 1)

Range(s) == {s[i] : i \in 1..Len(s)}

\* Nodes the list object still references, directly or through links.
Live(L) == Range(Chain(L.next, L.head, Fuel)) \cup Range(Chain(L.next, L.tail, Fuel))

\* Reference counting: a node nothing references any more is released.
Collect(L, live) ==
    [L EXCEPT !.next  = [n \in Nodes |-> IF n \in live THEN L.next[n] ELSE None],
              !.value = [n \in Nodes |-> IF n \in live THEN L.value[n] ELSE None]]

GC(L) == CHOOSE G \in {Collect(M, Live(M)) : M \in {L}} : TRUE

\* _Node(...): a fresh identity, one no live node has.
NewNode(L) ==
    LET free == Nodes \ Live(L)
    IN  CHOOSE n \in free : \A m \in free : n <= m

\* The model has room for one more node.
CanAlloc(L) == L.len < MaxLen /\ Nodes \ Live(L) # {}

\* __len__
Length(L) == L.len

\* __iter__: the values met walking from head until the link is None.
Iter(L) ==
    LET c == Chain(L.next, L.head, Fuel)
    IN  [i \in 1..Len(c) |-> L.value[c[i]]]

\* _node_at: bounds check, then index steps from head.
RECURSIVE Walk(_, _, _)
Walk(nx, cur, k) ==
    IF k = 0 \/ cur = None THEN cur
    ELSE Walk(nx, nx[cur], k - 1)

\* Variant of NodeAt: the upper bound check is off by one.
NodeAtOffByOne(L, index) ==
    IF index < 0 \/ index > L.len
    THEN Raise("IndexError", "index out of range")
    ELSE LET cur == Walk(L.next, L.head, index)
         IN  IF cur = None THEN Raise("AssertionError", "") ELSE Ok(cur)

NodeAt(L, index) ==
    IF index < 0 \/ index >= L.len
    THEN Raise("IndexError", "index out of range")
    ELSE LET cur == Walk(L.next, L.head, index)
         IN  IF cur = None THEN Raise("AssertionError", "") ELSE Ok(cur)

\* ------------------------------------------------------ O(1) operations
\* Variant of Prepend: the new node always becomes the tail as well.
PrependMovesTail(L, v) ==
    LET node == NewNode(L)
    IN  [L EXCEPT !.value[node] = v,
                  !.next[node]  = L.head,
                  !.head        = node,
                  !.tail        = node,
                  !.len         = L.len + 1]

Prepend(L, v) ==
    LET node == NewNode(L)
    IN  [L EXCEPT !.value[node] = v,
                  !.next[node]  = L.head,
                  !.head        = node,
                  !.tail        = IF L.tail = None THEN node ELSE L.tail,
                  !.len         = L.len + 1]

\* Variant of Append_: the old tail is not linked to the new node.
AppendNoLink(L, v) ==
    LET node == NewNode(L)
    IN  [L EXCEPT !.value[node] = v,
                  !.next[node]  = None,
                  !.head        = IF L.tail = None THEN node ELSE L.head,
                  !.tail        = node,
                  !.len         = L.len + 1]

Append_(L, v) ==
    LET node == NewNode(L)
    IN  IF L.tail = None
        THEN [L EXCEPT !.value[node] = v,
                       !.next[node]  = None,
                       !.head        = node,
                       !.tail        = node,
                       !.len         = L.len + 1]
        ELSE [L EXCEPT !.value[node]  = v,
                       !.next[node]   = None,
                       !.next[L.tail] = node,
                       !.tail         = node,
                       !.len          = L.len + 1]

\* Variant of PopLeft: tail is not cleared when the list becomes empty.
PopLeftKeepsTail(L) ==
    IF L.head = None
    THEN [st |-> L, ret |-> Raise("IndexError", "pop_left from empty list")]
    ELSE LET node == L.head
         IN  [st  |-> [L EXCEPT !.head = L.next[node], !.len = L.len - 1],
              ret |-> Ok(L.value[node])]

\* Variant of PopLeft: the empty list raises an exception of its own kind.
PopLeftOtherKind(L) ==
    IF L.head = None
    THEN [st |-> L, ret |-> Raise("LookupError", "pop_left from empty list")]
    ELSE LET node == L.head
             h    == L.next[node]
         IN  [st  |-> [L EXCEPT !.head = h,
                                !.tail = IF h = None THEN None ELSE L.tail,
                                !.len  = L.len - 1],
              ret |-> Ok(L.value[node])]

\* Variant of PopLeft: the value returned is the new head's, not the old one's.
PopLeftReturnsNext(L) ==
    IF L.head = None
    THEN [st |-> L, ret |-> Raise("IndexError", "pop_left from empty list")]
    ELSE LET node == L.head
             h    == L.next[node]
         IN  [st  |-> [L EXCEPT !.head = h,
                                !.tail = IF h = None THEN None ELSE L.tail,
                                !.len  = L.len - 1],
              ret |-> IF h = None THEN OkNone ELSE Ok(L.value[h])]

PopLeft(L) ==
    IF L.head = None
    THEN [st |-> L, ret |-> Raise("IndexError", "pop_left from empty list")]
    ELSE LET node == L.head
             h    == L.next[node]
         IN  [st  |-> [L EXCEPT !.head = h,
                                !.tail = IF h = None THEN None ELSE L.tail,
                                !.len  = L.len - 1],
              ret |-> Ok(L.value[node])]

\* ------------------------------------------------------ O(n) operations
\* Variant of Get: the walk uses head itself as the cursor.
GetMovesHead(L, index) ==
    LET r == NodeAt(L, index)
    IN  IF r.raised THEN [st |-> L, ret |-> r]
        ELSE [st |-> [L EXCEPT !.head = r.val, !.len = L.len - index],
              ret |-> Ok(L.value[r.val])]

Get(L, index) ==
    LET r == NodeAt(L, index)
    IN  IF r.raised THEN [st |-> L, ret |-> r]
        ELSE [st |-> L, ret |-> Ok(L.value[r.val])]

\* Variant of Set: the value is stored in the node after the one asked for.
SetWritesNext(L, index, v) ==
    LET r == NodeAt(L, index)
    IN  IF r.raised THEN [st |-> L, ret |-> r]
        ELSE LET n == IF L.next[r.val] = None THEN L.head ELSE L.next[r.val]
             IN  [st |-> [L EXCEPT !.value[n] = v], ret |-> OkNone]

Set(L, index, v) ==
    LET r == NodeAt(L, index)
    IN  IF r.raised THEN [st |-> L, ret |-> r]
        ELSE [st |-> [L EXCEPT !.value[r.val] = v], ret |-> OkNone]

\* Variant of Insert: the middle branch forgets to count the new node.
InsertNoCount(L, index, v) ==
    IF index < 0 \/ index > L.len
    THEN [st |-> L, ret |-> Raise("IndexError", "index out of range")]
    ELSE IF index = 0 THEN [st |-> Prepend(L, v), ret |-> OkNone]
    ELSE IF index = L.len THEN [st |-> Append_(L, v), ret |-> OkNone]
    ELSE LET r == NodeAt(L, index - 1)
         IN  IF r.raised THEN [st |-> L, ret |-> r]
             ELSE LET prev == r.val
                      node == NewNode(L)
                  IN  [st  |-> [L EXCEPT !.value[node] = v,
                                         !.next[node]  = L.next[prev],
                                         !.next[prev]  = node],
                       ret |-> OkNone]

\* Variant of Insert: the middle branch links after node index, not index - 1.
InsertOffByOne(L, index, v) ==
    IF index < 0 \/ index > L.len
    THEN [st |-> L, ret |-> Raise("IndexError", "index out of range")]
    ELSE IF index = 0 THEN [st |-> Prepend(L, v), ret |-> OkNone]
    ELSE IF index = L.len THEN [st |-> Append_(L, v), ret |-> OkNone]
    ELSE LET r == NodeAt(L, index)
         IN  IF r.raised THEN [st |-> L, ret |-> r]
             ELSE LET prev == r.val
                      node == NewNode(L)
                  IN  [st  |-> [L EXCEPT !.value[node] = v,
                                         !.next[node]  = L.next[prev],
                                         !.next[prev]  = node,
                                         !.len         = L.len + 1],
                       ret |-> OkNone]

Insert(L, index, v) ==
    IF index < 0 \/ index > L.len
    THEN [st |-> L, ret |-> Raise("IndexError", "index out of range")]
    ELSE IF index = 0 THEN [st |-> Prepend(L, v), ret |-> OkNone]
    ELSE IF index = L.len THEN [st |-> Append_(L, v), ret |-> OkNone]
    ELSE LET r == NodeAt(L, index - 1)
         IN  IF r.raised THEN [st |-> L, ret |-> r]
             ELSE LET prev == r.val
                      node == NewNode(L)
                  IN  [st  |-> [L EXCEPT !.value[node] = v,
                                         !.next[node]  = L.next[prev],
                                         !.next[prev]  = node,
                                         !.len         = L.len + 1],
                       ret |-> OkNone]

\* pop: the loop that finds the node before tail.
RECURSIVE FindPrev(_, _, _, _)
FindPrev(nx, prev, t, k) ==
    IF prev = None \/ k = 0 THEN None
    ELSE IF nx[prev] = t THEN prev
    ELSE FindPrev(nx, nx[prev], t, k - 1)

\* Variant of Pop: tail is left on the unlinked node.
PopKeepsTail(L) ==
    IF L.head = None
    THEN [st |-> L, ret |-> Raise("IndexError", "pop from empty list")]
    ELSE IF L.head = L.tail
    THEN [st  |-> [L EXCEPT !.head = None, !.tail = None, !.len = L.len - 1],
          ret |-> Ok(L.value[L.head])]
    ELSE LET prev == FindPrev(L.next, L.head, L.tail, Fuel)
         IN  IF prev = None \/ L.tail = None
             THEN [st |-> L, ret |-> Raise("AssertionError", "")]
             ELSE [st  |-> [L EXCEPT !.next[prev] = None, !.len = L.len - 1],
                   ret |-> Ok(L.value[L.tail])]

\* Variant of Pop: the counter is decremented before the emptiness check.
PopCountsFirst(L) ==
    IF L.head = None
    THEN [st  |-> [L EXCEPT !.len = L.len - 1],
          ret |-> Raise("IndexError", "pop from empty list")]
    ELSE IF L.head = L.tail
    THEN [st  |-> [L EXCEPT !.head = None, !.tail = None, !.len = L.len - 1],
          ret |-> Ok(L.value[L.head])]
    ELSE LET prev == FindPrev(L.next, L.head, L.tail, Fuel)
         IN  IF prev = None \/ L.tail = None
             THEN [st |-> L, ret |-> Raise("AssertionError", "")]
             ELSE [st  |-> [L EXCEPT !.next[prev] = None,
                                     !.tail       = prev,
                                     !.len        = L.len - 1],
                   ret |-> Ok(L.value[L.tail])]

\* Variant of Pop: the predecessor keeps its link to the old tail.
PopNoUnlink(L) ==
    IF L.head = None
    THEN [st |-> L, ret |-> Raise("IndexError", "pop from empty list")]
    ELSE IF L.head = L.tail
    THEN [st  |-> [L EXCEPT !.head = None, !.tail = None, !.len = L.len - 1],
          ret |-> Ok(L.value[L.head])]
    ELSE LET prev == FindPrev(L.next, L.head, L.tail, Fuel)
         IN  IF prev = None \/ L.tail = None
             THEN [st |-> L, ret |-> Raise("AssertionError", "")]
             ELSE [st  |-> [L EXCEPT !.tail = prev, !.len = L.len - 1],
                   ret |-> Ok(L.value[L.tail])]

Pop(L) ==
    IF L.head = None
    THEN [st |-> L, ret |-> Raise("IndexError", "pop from empty list")]
    ELSE IF L.head = L.tail
    THEN [st  |-> [L EXCEPT !.head = None, !.tail = None, !.len = L.len - 1],
          ret |-> Ok(L.value[L.head])]
    ELSE LET prev == FindPrev(L.next, L.head, L.tail, Fuel)
         IN  IF prev = None \/ L.tail = None
             THEN [st |-> L, ret |-> Raise("AssertionError", "")]
             ELSE [st  |-> [L EXCEPT !.next[prev] = None,
                                     !.tail       = prev,
                                     !.len        = L.len - 1],
                   ret |-> Ok(L.value[L.tail])]

\* remove: the scan with the trailing prev pointer.
RECURSIVE RemoveScan(_, _, _, _, _)
RemoveScan(L, prev, cur, v, k) ==
    IF cur = None \/ k = 0 THEN [st |-> L, ret |-> Ok(FALSE)]
    ELSE IF L.value[cur] = v
    THEN LET L1 == IF prev = None
                   THEN [L EXCEPT !.head = L.next[cur]]
                   ELSE [L EXCEPT !.next[prev] = L.next[cur]]
             L2 == IF cur = L.tail THEN [L1 EXCEPT !.tail = prev] ELSE L1
         IN  [st |-> [L2 EXCEPT !.len = L.len - 1], ret |-> Ok(TRUE)]
    ELSE RemoveScan(L, cur, L.next[cur], v, k - 1)

\* Variant of Remove: tail is not moved when the node unlinked was the tail.
RemoveKeepsTail(L, v) ==
    LET r == RemoveScan(L, None, L.head, v, Fuel)
    IN  [st |-> [r.st EXCEPT !.tail = L.tail], ret |-> r.ret]

Remove(L, v) == RemoveScan(L, None, L.head, v, Fuel)

\* find: index of the first value the predicate accepts, else None.
RECURSIVE FindScan(_, _, _, _, _)
FindScan(L, idx, cur, P, k) ==
    IF cur = None \/ k = 0 THEN OkNone
    ELSE IF L.value[cur] \in P THEN Ok(idx)
    ELSE FindScan(L, idx + 1, L.next[cur], P, k - 1)

\* Variant of Find: positions are counted from 1.
FindOneBased(L, P) == [st |-> L, ret |-> FindScan(L, 1, L.head, P, Fuel)]

Find(L, P) == [st |-> L, ret |-> FindScan(L, 0, L.head, P, Fuel)]

\* reverse: the three-pointer walk (prev, cur, nxt).
RECURSIVE ReverseLoop(_, _, _, _)
ReverseLoop(nx, prev, cur, k) ==
    IF cur = None \/ k = 0 THEN [next |-> nx, prev |-> prev]
    ELSE ReverseLoop([nx EXCEPT ![cur] = prev], cur, nx[cur], k - 1)

\* Variant of Reverse: tail is not moved to the former head.
ReverseKeepsTail(L) ==
    LET r == ReverseLoop(L.next, None, L.head, Fuel)
    IN  [L EXCEPT !.next = r.next, !.head = r.prev]

\* Variant of Reverse: head is not moved to the former tail.
ReverseNoHead(L) ==
    LET r == ReverseLoop(L.next, None, L.head, Fuel)
    IN  [L EXCEPT !.tail = L.head, !.next = r.next]

Reverse(L) ==
    LET r == ReverseLoop(L.next, None, L.head, Fuel)
    IN  [L EXCEPT !.tail = L.head, !.next = r.next, !.head = r.prev]

\* __init__(iterable): append each element in order to an empty list.
RECURSIVE Construct(_)
Construct(s) ==
    IF s = <<>> THEN EmptyList
    ELSE Append_(Construct(SubSeq(s, 1, Len(s) - 1)), s[Len(s)])

SeqsUpTo(n) == UNION {[1..k -> Values] : k \in 0..n}

\* ---------------------------------------------------------------- ghost
\* built records which calls made the list, while they are all of one kind:
\* kind is "none" (fresh empty list), "append", "prepend" or "mixed".
BuiltAfter(op, v) ==
    IF op = "append" /\ built.kind \in {"none", "append"}
    THEN [kind |-> "append", calls |-> built.calls \o <<v>>]
    ELSE IF op = "prepend" /\ built.kind \in {"none", "prepend"}
    THEN [kind |-> "prepend", calls |-> built.calls \o <<v>>]
    ELSE [kind |-> "mixed", calls |-> <<>>]

\* disc records the values put in and not yet taken out, in call order, while
\* the list is used as a queue (append / pop_left only) or as a stack
\* (prepend / pop_left only); due is the value the discipline says the
\* pop_left just made has to return.
NoDisc == [kind |-> "mixed", pending |-> <<>>, hasDue |-> FALSE, due |-> None]

DiscAfter(op, v) ==
    IF op = "append" /\ disc.kind \in {"fresh", "queue"}
    THEN [kind |-> "queue", pending |-> disc.pending \o <<v>>,
          hasDue |-> FALSE, due |-> None]
    ELSE IF op = "prepend" /\ disc.kind \in {"fresh", "stack"}
    THEN [kind |-> "stack", pending |-> disc.pending \o <<v>>,
          hasDue |-> FALSE, due |-> None]
    ELSE IF op = "pop_left" /\ disc.kind \in {"fresh", "queue", "stack"}
    THEN IF disc.pending = <<>>
         THEN [disc EXCEPT !.hasDue = FALSE, !.due = None]
         ELSE IF disc.kind = "queue"
         THEN [kind |-> "queue", pending |-> Tail(disc.pending),
               hasDue |-> TRUE, due |-> Head(disc.pending)]
         ELSE [kind |-> "stack",
               pending |-> SubSeq(disc.pending, 1, Len(disc.pending) - 1),
               hasDue |-> TRUE, due |-> disc.pending[Len(disc.pending)]]
    ELSE NoDisc

\* Object identities are opaque: a program can only compare them.  States are
\* therefore kept up to a renaming of the identities.  Order lists every
\* identity once: the nodes of L from head, then from tail, then those of the
\* earlier list P, then the unused ones.
RECURSIVE Dedup(_)
Dedup(s) ==
    IF s = <<>> THEN <<>>
    ELSE <<Head(s)>> \o Dedup(SelectSeq(Tail(s), LAMBDA x : x # Head(s)))

Order(L, P) ==
    Dedup(Chain(L.next, L.head, Fuel) \o Chain(L.next, L.tail, Fuel)
          \o Chain(P.next, P.head, Fuel) \o Chain(P.next, P.tail, Fuel)
          \o [i \in 1..MaxLen |-> i])

\* The identity that node n gets: its position in the order o.
NewName(o, n) == IF n = None THEN None ELSE CHOOSE i \in 1..Len(o) : o[i] = n

\* L with every node renamed by its position in o.
Rename(L, o) ==
    [head  |-> NewName(o, L.head),
     tail  |-> NewName(o, L.tail),
     len   |-> L.len,
     next  |-> [i \in Nodes |-> NewName(o, L.next[o[i]])],
     value |-> [i \in Nodes |-> L.value[o[i]]]]

\* One call: the list becomes L (released nodes collected), last records the
\* call and its outcome, pre the list as it was when the call was made; the
\* list and pre are renamed together, so a node keeps one name in both.
Commit(L, op, index, v, ret) ==
    \E G \in {GC(L)} :
      \E o \in {Order(G, Cur)} :
        \E R \in {Rename(G, o)} :
          /\ head'  = R.head
          /\ tail'  = R.tail
          /\ len'   = R.len
          /\ next'  = R.next
          /\ value' = R.value
          /\ last'  = [op |-> op, index |-> index, value |-> v, ret |-> ret]
          /\ pre'   = Rename(Cur, o)
          /\ built' = BuiltAfter(op, v)
          /\ disc'  = DiscAfter(op, v)
          /\ UNCHANGED <<conc, bs>>

\* Two threads share the list: a writer about to call reverse() and a reader
\* about to iterate.  wprev, wcur, wnxt are the writer's locals prev, cur,
\* nxt; rcur is the generator's local cur and out the values it has yielded;
\* before is what the list held when the first of them began (noted at that
\* first step, empty until then); overlap tells whether one
\* thread has taken a step while the other was in the middle of its call.
ConcStart ==
    [wpc |-> "start", wprev |-> None, wcur |-> None, wnxt |-> None,
     rpc |-> "start", rcur |-> None, out |-> <<>>,
     before |-> <<>>, overlap |-> FALSE]

\* binary_search of src/guess_number.py: its arguments (low0, high0 keep the
\* range it was called with), its locals, and what it returned.
SearchIdle ==
    [target |-> 0, low |-> 0, high |-> 0, low0 |-> 0, high0 |-> 0,
     guess |-> 0, pc |-> "idle", ret |-> OkNone]

\* ----------------------------------------------------------------- Init
Init ==
    \E s \in SeqsUpTo(MaxLen) :
        LET L == Construct(s)
        IN  /\ head  = L.head
            /\ tail  = L.tail
            /\ len   = L.len
            /\ next  = L.next
            /\ value = L.value
            /\ last  = [op |-> "init", index |-> 0, value |-> None, ret |-> OkNone]
            /\ pre   = EmptyList
            /\ built = IF s = <<>> THEN [kind |-> "none", calls |-> <<>>]
                       ELSE [kind |-> "append", calls |-> s]
            /\ disc  = [kind |-> IF s = <<>> THEN "fresh" ELSE "queue",
                        pending |-> s, hasDue |-> FALSE, due |-> None]
            /\ conc  = ConcStart
            /\ bs    = SearchIdle

\* -------------------------------------------------------------- actions
DoPrepend ==
    \E v \in Values :
        /\ CanAlloc(Cur)
        /\ Commit(Prepend(Cur, v), "prepend", 0, v, OkNone)

DoAppend ==
    \E v \in Values :
        /\ CanAlloc(Cur)
        /\ Commit(Append_(Cur, v), "append", 0, v, OkNone)

DoPopLeft ==
    \E r \in {PopLeft(Cur)} : Commit(r.st, "pop_left", 0, None, r.ret)

DoGet ==
    \E i \in Indexes :
        \E r \in {Get(Cur, i)} : Commit(r.st, "get", i, None, r.ret)

DoSet ==
    \E i \in Indexes, v \in Values :
        \E r \in {Set(Cur, i, v)} : Commit(r.st, "set", i, v, r.ret)

DoInsert ==
    \E i \in Indexes, v \in Values :
        /\ (0 <= i /\ i <= len) => CanAlloc(Cur)
        /\ \E r \in {Insert(Cur, i, v)} : Commit(r.st, "insert", i, v, r.ret)

DoPop ==
    \E r \in {Pop(Cur)} : Commit(r.st, "pop", 0, None, r.ret)

DoRemove ==
    \E v \in Values :
        \E r \in {Remove(Cur, v)} : Commit(r.st, "remove", 0, v, r.ret)

DoFind ==
    \E P \in Preds :
        \E r \in {Find(Cur, P)} : Commit(r.st, "find", 0, P, r.ret)

DoReverse ==
    Commit(Reverse(Cur), "reverse", 0, None, OkNone)

\* len(list)
DoLen ==
    Commit(Cur, "len", 0, None, Ok(Length(Cur)))

\* A complete iteration: list(list), or the walk __repr__ makes.
DoIter ==
    Commit(Cur, "iter", 0, None, Ok(Iter(Cur)))

Next ==
    \/ DoPrepend
    \/ DoAppend
    \/ DoPopLeft
    \/ DoGet
    \/ DoSet
    \/ DoInsert
    \/ DoPop
    \/ DoRemove
    \/ DoFind
    \/ DoReverse
    \/ DoLen
    \/ DoIter

Spec == Init /\ [][Next]_vars

\* ------------------------------------------- reverse against an iteration
\* The same list with no lock: each step is one read or write of head, tail
\* or a next link, as the interpreter may switch threads between them.
Midway(pc) == pc \notin {"start", "done"}

Began == conc.wpc # "start" \/ conc.rpc # "start"

WriterStep(c) ==
    [c EXCEPT !.overlap = c.overlap \/ Midway(conc.rpc),
              !.before  = IF Began THEN c.before ELSE Iter(Cur)]

ReaderStep(c) ==
    [c EXCEPT !.overlap = c.overlap \/ Midway(conc.wpc),
              !.before  = IF Began THEN c.before ELSE Iter(Cur)]

\* prev = None; cur = self.head
W_Start ==
    /\ conc.wpc = "start"
    /\ conc' = WriterStep([conc EXCEPT !.wpc = "tail", !.wprev = None, !.wcur = head])
    /\ UNCHANGED <<head, tail, len, next, value, last, pre, built, disc, bs>>

\* self.tail = self.head
W_Tail ==
    /\ conc.wpc = "tail"
    /\ tail' = head
    /\ conc' = WriterStep([conc EXCEPT !.wpc = "test"])
    /\ UNCHANGED <<head, len, next, value, last, pre, built, disc, bs>>

\* while cur:
W_Test ==
    /\ conc.wpc = "test"
    /\ conc' = WriterStep([conc EXCEPT !.wpc = IF conc.wcur # None THEN "read" ELSE "head"])
    /\ UNCHANGED <<head, tail, len, next, value, last, pre, built, disc, bs>>

\* nxt = cur.next
W_Read ==
    /\ conc.wpc = "read"
    /\ conc' = WriterStep([conc EXCEPT !.wpc = "write", !.wnxt = next[conc.wcur]])
    /\ UNCHANGED <<head, tail, len, next, value, last, pre, built, disc, bs>>

\* cur.next = prev; prev = cur; cur = nxt
W_Write ==
    /\ conc.wpc = "write"
    /\ next' = [next EXCEPT ![conc.wcur] = conc.wprev]
    /\ conc' = WriterStep([conc EXCEPT !.wpc = "test", !.wprev = conc.wcur,
                                       !.wcur = conc.wnxt])
    /\ UNCHANGED <<head, tail, len, value, last, pre, built, disc, bs>>

\* Variant of W_Head: the writer finishes without moving head.
W_HeadSkipped ==
    /\ conc.wpc = "head"
    /\ conc' = WriterStep([conc EXCEPT !.wpc = "done"])
    /\ UNCHANGED <<head, tail, len, next, value, last, pre, built, disc, bs>>

\* self.head = prev
W_Head ==
    /\ conc.wpc = "head"
    /\ head' = conc.wprev
    /\ conc' = WriterStep([conc EXCEPT !.wpc = "done"])
    /\ UNCHANGED <<tail, len, next, value, last, pre, built, disc, bs>>

\* cur = self.head
R_Start ==
    /\ conc.rpc = "start"
    /\ conc' = ReaderStep([conc EXCEPT !.rpc = "test", !.rcur = head])
    /\ UNCHANGED <<head, tail, len, next, value, last, pre, built, disc, bs>>

\* while cur:
R_Test ==
    /\ conc.rpc = "test"
    /\ conc' = ReaderStep([conc EXCEPT !.rpc = IF conc.rcur # None THEN "yield" ELSE "done"])
    /\ UNCHANGED <<head, tail, len, next, value, last, pre, built, disc, bs>>

\* yield cur.value
R_Yield ==
    /\ conc.rpc = "yield"
    /\ conc' = ReaderStep([conc EXCEPT !.rpc = "next",
                                       !.out = conc.out \o <<value[conc.rcur]>>])
    /\ UNCHANGED <<head, tail, len, next, value, last, pre, built, disc, bs>>

\* cur = cur.next
R_Next ==
    /\ conc.rpc = "next"
    /\ conc' = ReaderStep([conc EXCEPT !.rpc = "test", !.rcur = next[conc.rcur]])
    /\ UNCHANGED <<head, tail, len, next, value, last, pre, built, disc, bs>>

NextConc ==
    \/ W_Start
    \/ W_Tail
    \/ W_Test
    \/ W_Read
    \/ W_Write
    \/ W_Head
    \/ R_Start
    \/ R_Test
    \/ R_Yield
    \/ R_Next

SpecConc == Init /\ [][NextConc]_vars

\* ---------------------------------------------------------- binary_search
\* A call binary_search(target, low, high) on integers; guess = 0 on entry.
InitSearch ==
    /\ head = None /\ tail = None /\ len = 0
    /\ next = EmptyList.next /\ value = EmptyList.value
    /\ last = [op |-> "init", index |-> 0, value |-> None, ret |-> OkNone]
    /\ pre = EmptyList
    /\ built = [kind |-> "none", calls |-> <<>>]
    /\ disc = [kind |-> "fresh", pending |-> <<>>, hasDue |-> FALSE, due |-> None]
    /\ conc = ConcStart
    /\ \E t \in Keys, lo \in Keys, hi \in Keys :
          bs = [target |-> t, low |-> lo, high |-> hi, low0 |-> lo, high0 |-> hi,
                guess |-> 0, pc |-> "loop", ret |-> OkNone]

\* Variant of LoopCond: the loop stops when one candidate is left.
LoopCondStrict(b) == b.low < b.high

\* while low <= high
LoopCond(b) == b.low <= b.high

\* One pass of the loop body: mid, guess += 1, then return or narrow.
BS_Guess ==
    /\ bs.pc = "loop"
    /\ LoopCond(bs)
    /\ LET mid == (bs.low + bs.high) \div 2
           g   == bs.guess + 1
       IN  bs' = IF mid = bs.target
                 THEN [bs EXCEPT !.guess = g, !.pc = "done", !.ret = Ok(g)]
                 ELSE IF mid < bs.target
                 THEN [bs EXCEPT !.guess = g, !.low = mid + 1]
                 ELSE [bs EXCEPT !.guess = g, !.high = mid - 1]
    /\ UNCHANGED <<head, tail, len, next, value, last, pre, built, disc, conc>>

\* The loop condition fails: return None.
BS_Exit ==
    /\ bs.pc = "loop"
    /\ ~LoopCond(bs)
    /\ bs' = [bs EXCEPT !.pc = "done", !.ret = OkNone]
    /\ UNCHANGED <<head, tail, len, next, value, last, pre, built, disc, conc>>

NextSearch ==
    \/ BS_Guess
    \/ BS_Exit

\* The function runs by itself: a step that can be taken is taken.
SpecSearch == InitSearch /\ [][NextSearch]_vars /\ WF_vars(NextSearch)

\* ------------------------------------------------------------ type check
TypeOK ==
    /\ head \in Nodes \cup {None}
    /\ tail \in Nodes \cup {None}
    /\ len \in 0..MaxLen
    /\ next \in [Nodes -> Nodes \cup {None}]
    /\ value \in [Nodes -> Values \cup {None}]

\* --------------------------------------------------------------- helpers
Rev(s) == [i \in 1..Len(s) |-> s[Len(s) + 1 - i]]

NoRepeat(s) == \A i, j \in 1..Len(s) : i # j => s[i] # s[j]

PopOps   == {"pop_left", "pop"}
IndexOps == {"get", "set", "insert"}

\* =================================================================== C1
\* C1: in every reachable state, whatever calls (failing ones included) led
\* to it, head is None iff tail is None iff the length counter is 0.
C1_EmptinessAgrees ==
    /\ (head = None) <=> (tail = None)
    /\ (tail = None) <=> (len = 0)

\* A removal has just emptied a list that held a node.
C1_Witness ==
    /\ last.op \in {"pop_left", "pop", "remove"}
    /\ pre.len = 1
    /\ len = 0

\* =================================================================== C2
\* C2: after any sequence of calls, length() equals the number of values
\* iteration produces, i.e. the number of nodes reachable from head.
C2_LengthIsIterCount ==
    /\ Length(Cur) = Len(Iter(Cur))
    /\ Length(Cur) = Cardinality(Range(Chain(next, head, Fuel)))

\* remove has just unlinked a node of a longer list.
C2_Witness ==
    /\ last.op = "remove"
    /\ pre.len >= 2
    /\ len = pre.len - 1

\* =================================================================== C3
\* C3: in a non-empty list the chain of next links from head is acyclic,
\* visits exactly len nodes, and the node it ends at (the one whose next is
\* None) is the very node tail refers to.
C3_ChainEndsAtTail ==
    head # None =>
        LET c == Chain(next, head, Fuel)
        IN  /\ Len(c) = len
            /\ NoRepeat(c)
            /\ c[Len(c)] = tail
            /\ next[c[Len(c)]] = None

\* pop has just moved tail back to the predecessor.
C3_Witness ==
    /\ last.op = "pop"
    /\ pre.len >= 2
    /\ ~last.ret.raised
    /\ tail # pre.tail

\* =================================================================== C4
\* C4: starting from an empty list, after append calls only iteration yields
\* the appended values in call order; after prepend calls only it yields the
\* prepended values in reverse call order.
C4_BuildOrder ==
    /\ built.kind = "append"  => Iter(Cur) = built.calls
    /\ built.kind = "prepend" => Iter(Cur) = Rev(built.calls)

\* Two different values have been prepended to an empty list.
C4_Witness ==
    /\ built.kind = "prepend"
    /\ Len(built.calls) >= 2
    /\ built.calls[1] # built.calls[2]

\* =================================================================== C5
\* C5: reverse is an involution: in the state one reverse call leaves, a
\* second reverse restores the values in their original order and the
\* original head and tail nodes (empty and one-element lists included).
C5_ReverseInvolution ==
    last.op = "reverse" =>
        LET R == GC(Reverse(Cur))
        IN  /\ Iter(R) = Iter(pre)
            /\ R.head = pre.head
            /\ R.tail = pre.tail
            /\ R = pre

\* reverse has just run on a full list whose ends hold different values.
C5_Witness ==
    /\ last.op = "reverse"
    /\ len = MaxLen
    /\ value[head] # value[tail]

\* =================================================================== C6
\* C6: after one reverse call iteration yields the previous values in the
\* opposite order, the length is unchanged, the nodes are the same nodes,
\* the old head is the new tail (its next is None) and the old tail is the
\* new head.
C6_ReverseOnce ==
    last.op = "reverse" =>
        /\ Iter(Cur) = Rev(Iter(pre))
        /\ len = pre.len
        /\ Live(Cur) = Live(pre)
        /\ Range(Chain(next, head, Fuel)) = Range(Chain(pre.next, pre.head, Fuel))
        /\ tail = pre.head
        /\ head = pre.tail
        /\ tail # None => next[tail] = None

\* reverse has just changed the order of a list of two or more nodes.
C6_Witness ==
    /\ last.op = "reverse"
    /\ len >= 2
    /\ Iter(Cur) # Iter(pre)
    /\ head # pre.head

\* =================================================================== C7
\* C7: get and set raise the index error exactly when index < 0 or
\* index >= length(); insert raises it exactly when index < 0 or
\* index > length(); a call that raises leaves the list as it was.
C7_IndexErrors ==
    /\ last.op \in {"get", "set"} =>
          /\ last.ret.raised <=> (last.index < 0 \/ last.index >= pre.len)
          /\ last.ret.raised => last.ret.exc = "IndexError"
    /\ last.op = "insert" =>
          /\ last.ret.raised <=> (last.index < 0 \/ last.index > pre.len)
          /\ last.ret.raised => last.ret.exc = "IndexError"
    /\ (last.op \in IndexOps /\ last.ret.raised) =>
          /\ Cur = pre
          /\ Iter(Cur) = Iter(pre)

\* set has just failed at index = length() on a non-empty list.
C7_Witness ==
    /\ last.op = "set"
    /\ last.ret.raised
    /\ pre.len >= 1
    /\ last.index = pre.len

\* =================================================================== C8
\* C8: pop_left and pop on an empty list raise and leave it empty (head
\* None, tail None, counter 0, never negative); on a non-empty list they
\* never raise.
C8_PopOnEmpty ==
    /\ len >= 0
    /\ (last.op \in PopOps /\ pre.len = 0) =>
          /\ last.ret.raised
          /\ last.ret.exc = "IndexError"
          /\ last.ret.msg \in {"pop from empty list", "pop_left from empty list"}
          /\ head = None /\ tail = None /\ len = 0
    /\ (last.op \in PopOps /\ pre.len > 0) => ~last.ret.raised

\* pop has just failed on an empty list.
C8_Witness ==
    /\ last.op = "pop"
    /\ last.ret.raised
    /\ pre.head = None

\* =================================================================== C9
\* C9 (as stated): the error raised by pop_left/pop on an empty list is of a
\* different kind from the error raised by get/set/insert with an index out
\* of range: a failing pop followed by a failing indexed call never shows the
\* same kind twice.
C9_DistinctKinds ==
    [][(/\ last.op \in PopOps /\ last.ret.raised
        /\ last'.op \in IndexOps /\ last'.ret.raised)
       => last.ret.exc # last'.ret.exc]_vars

\* C9 (amended): every error the container raises is of the one kind
\* IndexError; the failures of pop_left/pop on an empty list and of
\* get/set/insert out of range differ in their message only.
C9_OneKindTwoMessages ==
    last.ret.raised =>
        /\ last.ret.exc = "IndexError"
        /\ last.op \in PopOps =>
              last.ret.msg \in {"pop from empty list", "pop_left from empty list"}
        /\ last.op \in IndexOps => last.ret.msg = "index out of range"
        /\ last.op \in PopOps =>
              \A i \in Indexes :
                  /\ Get(Cur, i).ret.raised
                  /\ Get(Cur, i).ret.exc = last.ret.exc
                  /\ Get(Cur, i).ret.msg # last.ret.msg

\* pop_left has just failed, with the kind get(0) fails with on this list.
C9_Witness ==
    /\ last.op = "pop_left"
    /\ last.ret.raised
    /\ Get(Cur, 0).ret.raised
    /\ Get(Cur, 0).ret.exc = last.ret.exc

\* ================================================================== C10
\* C10: for 0 <= index <= length(), insert(index, v) yields the old values
\* before index, then v, then the old values from index on, and the length
\* grows by 1; insert(length(), v) leaves the state append(v) would (the new
\* node is the tail) and insert(0, v) the state prepend(v) would (the new
\* node is the head, and the tail too when the list was empty).
C10_InsertAt ==
    (last.op = "insert" /\ 0 <= last.index /\ last.index <= pre.len) =>
        LET old == Iter(pre)
            i   == last.index
            v   == last.value
        IN  /\ ~last.ret.raised
            /\ Iter(Cur) = SubSeq(old, 1, i) \o <<v>> \o SubSeq(old, i + 1, Len(old))
            /\ len = pre.len + 1
            /\ i = pre.len =>
                  /\ Cur = GC(Append_(pre, v))
                  /\ tail \notin Live(pre) /\ value[tail] = v /\ next[tail] = None
                  /\ pre.len > 0 => head = pre.head
            /\ i = 0 =>
                  /\ Cur = GC(Prepend(pre, v))
                  /\ head \notin Live(pre) /\ value[head] = v
                  /\ next[head] = pre.head
                  /\ tail = IF pre.len = 0 THEN head ELSE pre.tail

\* insert has just put a new value strictly inside a list.
C10_Witness ==
    /\ last.op = "insert"
    /\ 0 < last.index
    /\ last.index < pre.len
    /\ ~last.ret.raised
    /\ Iter(Cur)[last.index + 1] # Iter(pre)[last.index + 1]

\* ================================================================== C11
\* C11: remove(value) unlinks exactly the first node holding an equal value
\* and returns true: the other values keep their order, the length drops by
\* 1, tail moves to the predecessor when the tail was removed (head and tail
\* are cleared when it was the only node); when no node holds the value it
\* returns false, raises nothing and leaves the list unchanged.
C11_RemoveFirstMatch ==
    last.op = "remove" =>
        LET old  == Iter(pre)
            c    == Chain(pre.next, pre.head, Fuel)
            hits == {i \in 1..Len(old) : old[i] = last.value}
        IN  /\ ~last.ret.raised
            /\ hits = {} => (last.ret.val = FALSE /\ Cur = pre)
            /\ hits # {} =>
                  LET i == CHOOSE k \in hits : \A m \in hits : k <= m
                  IN  /\ last.ret.val = TRUE
                      /\ Iter(Cur) = SubSeq(old, 1, i - 1) \o SubSeq(old, i + 1, Len(old))
                      /\ Chain(next, head, Fuel)
                            = SubSeq(c, 1, i - 1) \o SubSeq(c, i + 1, Len(c))
                      /\ len = pre.len - 1
                      /\ tail = IF i < Len(c) THEN pre.tail
                                ELSE IF i = 1 THEN None ELSE c[i - 1]
                      /\ (Len(c) = 1) => (head = None /\ tail = None)

\* remove has just unlinked the tail, the only node holding the value, of a
\* list of two or more nodes.
C11_Witness ==
    /\ last.op = "remove"
    /\ pre.len >= 2
    /\ pre.value[pre.tail] = last.value
    /\ tail # pre.tail
    /\ tail # None

\* ================================================================== C12
\* C12: pop on a non-empty list returns the last value and removes its node:
\* the earlier values stay in order, the length drops by 1, tail becomes the
\* old tail's predecessor with its next link None; with one element both
\* head and tail are cleared.
C12_PopLast ==
    (last.op = "pop" /\ pre.len > 0) =>
        LET old == Iter(pre)
            c   == Chain(pre.next, pre.head, Fuel)
        IN  /\ ~last.ret.raised
            /\ last.ret.val = old[Len(old)]
            /\ Iter(Cur) = SubSeq(old, 1, Len(old) - 1)
            /\ Chain(next, head, Fuel) = SubSeq(c, 1, Len(c) - 1)
            /\ len = pre.len - 1
            /\ pre.len = 1 => (head = None /\ tail = None)
            /\ pre.len > 1 =>
                  /\ head = pre.head
                  /\ pre.next[tail] = pre.tail
                  /\ next[tail] = None

\* pop has just taken the last of three or more values.
C12_Witness ==
    /\ last.op = "pop"
    /\ pre.len >= 3
    /\ len = pre.len - 1
    /\ last.ret.val = pre.value[pre.tail]

\* ================================================================== C13
\* C13: pop_left on a non-empty list returns the first value and removes its
\* node: the later values stay in order, the length drops by 1, tail stays
\* on the same node unless the list became empty, when it is cleared with
\* head.  So over append and pop_left calls the values come out in the order
\* they went in (FIFO), and over prepend and pop_left calls the value put in
\* last comes out first (LIFO).
C13_PopLeftOrder ==
    /\ (last.op = "pop_left" /\ pre.len > 0) =>
          LET old == Iter(pre)
              c   == Chain(pre.next, pre.head, Fuel)
          IN  /\ ~last.ret.raised
              /\ ~last.ret.isNone
              /\ last.ret.val = old[1]
              /\ Iter(Cur) = Tail(old)
              /\ Chain(next, head, Fuel) = Tail(c)
              /\ len = pre.len - 1
              /\ tail = IF pre.len = 1 THEN None ELSE pre.tail
              /\ pre.len = 1 => head = None
    /\ (last.op = "pop_left" /\ disc.hasDue) =>
          /\ ~last.ret.raised
          /\ ~last.ret.isNone
          /\ last.ret.val = disc.due
    /\ disc.kind = "queue" => Iter(Cur) = disc.pending
    /\ disc.kind = "stack" => Iter(Cur) = Rev(disc.pending)

\* A list used as a queue has just given out a value while a different,
\* later one is still waiting.
C13_Witness ==
    /\ last.op = "pop_left"
    /\ disc.kind = "queue"
    /\ disc.hasDue
    /\ disc.pending # <<>>
    /\ disc.pending[1] # disc.due
    /\ last.ret.val = disc.due

\* ================================================================== C14
\* C14: find(predicate) returns the 0-based index of the first value the
\* predicate accepts, and None (never an error) when there is none, the
\* empty list included; an index i it returns has 0 <= i < length(), get(i)
\* satisfies the predicate and no value at a lower index does.
C14_FindFirst ==
    last.op = "find" =>
        LET vals == Iter(Cur)
            P    == last.value
            hits == {i \in 1..Len(vals) : vals[i] \in P}
        IN  /\ ~last.ret.raised
            /\ last.ret.isNone <=> (hits = {})
            /\ ~last.ret.isNone =>
                  LET i == last.ret.val
                  IN  /\ 0 <= i /\ i < Length(Cur)
                      /\ ~Get(Cur, i).ret.raised
                      /\ Get(Cur, i).ret.val \in P
                      /\ \A j \in 0..(i - 1) : Get(Cur, j).ret.val \notin P
                      /\ i + 1 \in hits
                      /\ \A k \in hits : i + 1 <= k

\* find has just returned an index past the head although a later value
\* matches as well.
C14_Witness ==
    /\ last.op = "find"
    /\ ~last.ret.isNone
    /\ last.ret.val >= 1
    /\ \E j \in (last.ret.val + 1)..(len - 1) : Get(Cur, j).ret.val \in last.value

\* ================================================================== C15
\* C15: iteration, length(), get and find are pure queries: they leave head,
\* tail, the counter, every next link and every stored value as they were;
\* iteration is restartable: a second complete iteration with no mutation in
\* between yields the same values in the same order.
C15_QueriesArePure ==
    /\ last.op \in {"iter", "len", "get", "find"} =>
          /\ Cur = pre
          /\ Iter(Cur) = Iter(pre)
    /\ last.op = "iter" =>
          /\ last.ret.val = Iter(Cur)
          /\ last.ret.val = Iter(pre)
    /\ last.op = "len" => last.ret.val = Length(pre)

\* get has just read a value that is not at the head.
C15_Witness ==
    /\ last.op = "get"
    /\ ~last.ret.raised
    /\ last.index >= 1
    /\ len >= 2

\* ================================================================== C17
\* C17: for 0 <= i < length(), set(i, v) followed by get(i) returns v, and
\* set changes nothing but the value at position i: length, head, tail,
\* links and the values at every other position stay.
C17_SetThenGet ==
    (last.op = "set" /\ 0 <= last.index /\ last.index < pre.len) =>
        LET i == last.index
            c == Chain(pre.next, pre.head, Fuel)
        IN  /\ ~last.ret.raised
            /\ Get(Cur, i).ret = Ok(last.value)
            /\ len = pre.len /\ head = pre.head /\ tail = pre.tail
            /\ next = pre.next
            /\ \A n \in Nodes : n # c[i + 1] => value[n] = pre.value[n]
            /\ \A j \in 1..Len(c) : j # i + 1 => Iter(Cur)[j] = Iter(pre)[j]

\* set has just replaced, past the head, a value by a different one.
C17_Witness ==
    /\ last.op = "set"
    /\ ~last.ret.raised
    /\ last.index >= 1
    /\ Iter(pre)[last.index + 1] # last.value
    /\ Iter(Cur)[last.index + 1] = last.value

\* ================================================================== C18
\* C18: on every reachable list prepend(v) followed by pop_left returns v
\* and restores the values, length, head node and tail node; append(v)
\* followed by pop returns v and restores them too, the tail's next link
\* being None again.
C18_RoundTrip ==
    /\ last.op = "prepend" =>
          LET r == PopLeft(Cur)
              G == GC(r.st)
          IN  /\ r.ret = Ok(last.value)
              /\ Iter(G) = Iter(pre)
              /\ G.len = pre.len /\ G.head = pre.head /\ G.tail = pre.tail
              /\ G = pre
    /\ last.op = "append" =>
          LET r == Pop(Cur)
              G == GC(r.st)
          IN  /\ r.ret = Ok(last.value)
              /\ Iter(G) = Iter(pre)
              /\ G.len = pre.len /\ G.head = pre.head /\ G.tail = pre.tail
              /\ G.tail # None => G.next[G.tail] = None
              /\ G = pre

\* append has just added a node to a list that already held two.
C18_Witness ==
    /\ last.op = "append"
    /\ pre.len >= 2
    /\ len = pre.len + 1
    /\ tail # pre.tail

\* ================================================================== C16
\* C16: an iteration interleaved, step by step, with a reverse run by another
\* thread can see a torn view: a state is reachable (C16_Witness) in which
\* the values it yielded are neither the contents before the reverse nor the
\* contents after it, and are more than the list has nodes.  A completed
\* iteration is torn only if the two calls overlapped: run one after the
\* other, the reader yields the contents before or the contents after.
C16_TornOnlyWhenInterleaved ==
    (conc.rpc = "done" /\ ~conc.overlap) =>
        /\ conc.out \in {conc.before, Rev(conc.before)}
        /\ conc.wpc # "done" => conc.out = conc.before

\* The reader has finished with a view that is neither the old contents nor
\* the new ones, and longer than the list.
C16_Witness ==
    /\ conc.rpc = "done"
    /\ conc.wpc = "done"
    /\ conc.overlap
    /\ conc.out # conc.before
    /\ conc.out # Rev(conc.before)
    /\ Iter(Cur) = Rev(conc.before)
    /\ Len(conc.out) > len

\* ================================================================== C19
\* C19: binary_search(target, low, high) terminates for every input; it
\* returns a positive guess count iff low <= target <= high and None
\* otherwise; while it loops, a target that was in the initial range stays
\* within the current [low, high]; and the count returned is at most
\* floor(log2(high - low + 1)) + 1 for the initial range.
RECURSIVE Log2Floor(_)
Log2Floor(n) == IF n <= 1 THEN 0 ELSE 1 + Log2Floor(n \div 2)

InRange0 == bs.low0 <= bs.target /\ bs.target <= bs.high0

C19_Safe ==
    /\ (bs.pc = "loop" /\ InRange0) =>
          (bs.low <= bs.target /\ bs.target <= bs.high)
    /\ bs.pc = "done" =>
          /\ ~bs.ret.raised
          /\ ~bs.ret.isNone <=> InRange0
          /\ ~bs.ret.isNone =>
                /\ bs.ret.val > 0
                /\ bs.ret.val = bs.guess
                /\ bs.ret.val <= Log2Floor(bs.high0 - bs.low0 + 1) + 1

C19_BinarySearch == [](C19_Safe) /\ <>(bs.pc = "done")

\* A search has just found its target with as many guesses as the bound
\* allows, three or more.
C19_Witness ==
    /\ bs.pc = "done"
    /\ ~bs.ret.isNone
    /\ bs.ret.val >= 3
    /\ bs.ret.val = Log2Floor(bs.high0 - bs.low0 + 1) + 1

====
